---- MODULE Spec2Model ----
(***************************************************************************)
(* Hindsight experience replay buffer, pfrl/replay_buffers/hindsight.py.   *)
(*                                                                         *)
(* Python calls are modelled with their exceptions: every operator that    *)
(* models a function returns a record whose field err is "none" when the   *)
(* call returns and the exception's class name when it raises.  Python     *)
(* indices are 0-based, sequences here are 1-based: episode[t] of the      *)
(* source is episode[t + 1] here and episode[-1] is episode[Len(episode)]. *)
(***************************************************************************)
EXTENDS Integers, Sequences, FiniteSets, TLC

VARIABLES episodic_memory, res

vars == <<episodic_memory, res>>

---------------------------------------------------------------------------
(* Bounds of the model.                                                    *)

MaxEpLen == 2

MaxEpisodes == 1

MaxN == 2

MaxK == 2

MaxSwapLen == 2

UniformRes == 4

---------------------------------------------------------------------------
(* Values: transitions, episodes, the opaque callables.                    *)

\* Achieved-goal values; 0 stands for "nothing achieved".
Goals == {0, 1}

\* The two opaque callables, fixed to concrete pure functions.  reward_fn is
\* not symmetric, so the order of its arguments shows in its value.
reward_fn(new_goal, achieved_goal) == 10 * new_goal + achieved_goal

is_null_goal(goal) == goal = 0

DesiredKeys == {"desired_goal", "desired_x"}

AchievedKeys == {"achieved_goal", "achieved_x"}

Keys == DesiredKeys \cup AchievedKeys

\* An observation mapping: a goal pair and a second desired/achieved pair x.
MkObs(d, a) ==
    [k \in Keys |->
        CASE k = "desired_goal" -> d
          [] k = "achieved_goal" -> a
          [] k = "desired_x" -> 10 + d
          [] OTHER -> 10 + a]

MkTransition(d, a0, a1, terminal) ==
    [state |-> MkObs(d, a0),
     action |-> a1,
     reward |-> reward_fn(d, a1),
     next_state |-> MkObs(d, a1),
     is_state_terminal |-> terminal]

\* The episode of a rollout that reaches the goals gs in turn, its desired goal
\* being 2, which the rollout never achieves.
MkEpisode(gs) ==
    [i \in 1..Len(gs) |->
        MkTransition(2, IF i = 1 THEN 0 ELSE gs[i - 1], gs[i], i = Len(gs))]

SeqsUpTo(S, lo, hi) == UNION {[1..n -> S] : n \in lo..hi}

EpisodePool == {MkEpisode(gs) : gs \in SeqsUpTo(Goals, 1, MaxEpLen)}

TransitionPool ==
    {MkTransition(d, a0, a1, FALSE) : d \in {1, 2}, a0 \in Goals, a1 \in Goals}

SwapRules == DesiredKeys \X AchievedKeys

DefaultSwapList == <<(<<"desired_goal", "achieved_goal">>)>>

InList(x, list) == \E i \in 1..Len(list) : list[i] = x

---------------------------------------------------------------------------
(* Name resolution.  A name a function body reads is looked up among the   *)
(* function's locals, then among the module's globals; a name found in     *)
(* neither raises NameError.                                               *)

ModuleGlobals ==
    {"copy", "np", "EpisodicReplayBuffer", "random_subseq",
     "relabel_transition_goal", "HindsightReplayStrategy", "ReplayFinalGoal",
     "ReplayFutureGoal", "HindsightReplayBuffer"}

Resolves(name, locals) == name \in locals \cup ModuleGlobals

---------------------------------------------------------------------------
(* relabel_transition_goal, lines 9-19.                                    *)

Put(m, k, v) == [x \in DOMAIN m \cup {k} |-> IF x = k THEN v ELSE m[x]]

\* A mutant of SwapOne: the replacement is written to state only.
SwapOneStateOnly(transition, goal_transition, rule) ==
    [transition EXCEPT !.state = Put(@, rule[1], goal_transition.next_state[rule[2]])]

\* Lines 13-15: one rule (desired_obs_key, achieved_obs_key) of the loop.
SwapOne(transition, goal_transition, rule) ==
    LET replacement == goal_transition.next_state[rule[2]]
    IN  [transition EXCEPT !.state = Put(@, rule[1], replacement),
                           !.next_state = Put(@, rule[1], replacement)]

RECURSIVE SwapAll(_, _, _)
\* Lines 12-15: the loop over swap_keys_list, in list order.
SwapAll(transition, goal_transition, swap_keys_list) ==
    IF swap_keys_list = <<>>
    THEN [err |-> "none", transition |-> transition]
    ELSE LET rule == Head(swap_keys_list)
         IN  IF rule[2] \notin DOMAIN goal_transition.next_state
             THEN [err |-> "KeyError", transition |-> transition]
             ELSE SwapAll(SwapOne(transition, goal_transition, rule),
                          goal_transition, Tail(swap_keys_list))

\* Lines 16-19, after the loop outcome swapped.
SetReward(swapped, goal_transition) ==
    IF swapped.err # "none"
    THEN [err |-> swapped.err, transition |-> swapped.transition, calls |-> 0]
    ELSE IF "achieved_goal" \notin DOMAIN goal_transition.next_state
            \/ "achieved_goal" \notin DOMAIN swapped.transition.next_state
    THEN [err |-> "KeyError", transition |-> swapped.transition, calls |-> 0]
    ELSE [err |-> "none",
          transition |->
              [swapped.transition EXCEPT
                  !.reward =
                      reward_fn(goal_transition.next_state["achieved_goal"],
                                swapped.transition.next_state["achieved_goal"])],
          calls |-> 1]

\* The function takes five positional parameters, self first.  transition is
\* the object the caller passes; the returned record holds that object after
\* the call (it is written in place) and the number of reward_fn calls made.
relabel_transition_goal(self, transition, goal_transition, swap_keys_list) ==
    SetReward(SwapAll(transition, goal_transition, swap_keys_list),
              goal_transition)

\* Number of parameters of relabel_transition_goal (line 9-10).
RelabelArity == 5

NoCall == [op |-> "none"]

SwapLists ==
    {l \in SeqsUpTo(SwapRules, 1, MaxSwapLen) :
        InList(<<"desired_goal", "achieved_goal">>, l)}

\* A direct call of the primitive on a private copy of a transition, with a
\* goal transition that is another object.
Relabel ==
    \E transition \in TransitionPool, goal_transition \in TransitionPool,
       swap_keys_list \in SwapLists :
        LET r == relabel_transition_goal("self", transition, goal_transition,
                                         swap_keys_list)
        IN  /\ res' = [op |-> "relabel",
                       transition |-> transition,
                       goal_transition |-> goal_transition,
                       swap_keys_list |-> swap_keys_list,
                       err |-> r.err,
                       out |-> r.transition,
                       calls |-> r.calls]
            /\ UNCHANGED episodic_memory

InitRelabel == episodic_memory = <<>> /\ res = NoCall

SpecRelabel == InitRelabel /\ [][Relabel]_vars

---------------------------------------------------------------------------
(* HindsightReplayBuffer.__init__, lines 132-152.                          *)

StrategyTags == {"future", "final", "none"}

InitParams ==
    {"self", "reward_fn", "replay_strategy", "capacity", "is_null_goal",
     "future_k", "swap_list"}

\* Line 152: 1.0 - 1.0 / (float(future_k) + 1), kept as an exact fraction.
future_prob(future_k) == [num |-> (future_k + 1) - 1, den |-> future_k + 1]

\* Lines 144-152: the attributes the constructor assigns.  is_null_goal is
\* "fn" for a callable and "None" for the default.
BufferFields(replay_strategy, null_goal_fn, future_k, swap_list) ==
    [replay_strategy |-> replay_strategy,
     is_null_goal |-> null_goal_fn,
     swap_keys_list |-> swap_list,
     future_prob |-> future_prob(future_k)]

\* The statements of __init__ in order.  Line 141 reads ignore_null_goals,
\* which is neither a parameter of __init__ nor a module global.  Were it
\* bound, it would hold the flag whose default is True (lines 36 and 77).
HindsightReplayBuffer_init(replay_strategy, null_goal_fn, future_k, swap_list) ==
    IF replay_strategy \notin StrategyTags
    THEN [err |-> "AssertionError"]
    ELSE IF ~Resolves("ignore_null_goals", InitParams)
    THEN [err |-> "NameError"]
    ELSE IF null_goal_fn = "None"
    THEN [err |-> "AssertionError"]
    ELSE IF ~InList(<<"desired_goal", "achieved_goal">>, swap_list)
    THEN [err |-> "AssertionError"]
    ELSE [err |-> "none",
          self |-> BufferFields(replay_strategy, null_goal_fn, future_k, swap_list)]

Construct ==
    \E replay_strategy \in StrategyTags \cup {"other"},
       null_goal_fn \in {"fn", "None"},
       future_k \in 0..MaxK,
       swap_list \in SeqsUpTo(SwapRules, 0, MaxSwapLen) :
        LET r == HindsightReplayBuffer_init(replay_strategy, null_goal_fn,
                                            future_k, swap_list)
        IN  /\ res' = [op |-> "init",
                       replay_strategy |-> replay_strategy,
                       is_null_goal |-> null_goal_fn,
                       future_k |-> future_k,
                       swap_list |-> swap_list,
                       result |-> r]
            /\ UNCHANGED episodic_memory

InitConstruct == episodic_memory = <<>> /\ res = NoCall

SpecConstruct == InitConstruct /\ [][Construct]_vars

---------------------------------------------------------------------------
(* The episode store of EpisodicReplayBuffer, the base class.              *)

\* append / stop_current_episode of the base class: a closed episode joins
\* episodic_memory.
append ==
    /\ Len(episodic_memory) < MaxEpisodes
    /\ \E episode \in EpisodePool :
        episodic_memory' = Append(episodic_memory, episode)
    /\ res' = [op |-> "append"]

RECURSIVE SumLens(_)
SumLens(episodes) ==
    IF episodes = <<>> THEN 0 ELSE Len(Head(episodes)) + SumLens(Tail(episodes))

\* len(self.memory): the base class keeps the transitions of the stored
\* episodes in memory.
len_memory(store) == SumLens(store)

---------------------------------------------------------------------------
(* sample_with_replacement, sample_episodes, sample: lines 155-181.        *)

\* The index vectors np.random.randint(0, len, k) can return (1-based here).
IdxDraws(store, k) ==
    IF k <= 0 \/ store = <<>> THEN {<<>>} ELSE [1..k -> 1..Len(store)]

\* Lines 179-181.  randint raises ValueError for a negative size and for an
\* empty range; whether the empty range is an error when no number is asked
\* for (k = 0) depends on the numpy build, which empty_ok stands for.
sample_with_replacement(store, k, idxs, empty_ok) ==
    IF k < 0 THEN [err |-> "ValueError", episodes |-> <<>>]
    ELSE IF store = <<>> /\ (k > 0 \/ ~empty_ok)
    THEN [err |-> "ValueError", episodes |-> <<>>]
    ELSE [err |-> "none", episodes |-> [i \in 1..k |-> store[idxs[i]]]]

\* Lines 172-177 with max_len left at None, as sample calls it.
sample_episodes(store, n_episodes, idxs, empty_ok) ==
    sample_with_replacement(store, n_episodes, idxs, empty_ok)

\* Attributes of a str object that matter here: it has no method apply.
StrAttrs == {"join", "split", "format", "strip", "lower", "upper"}

\* Attributes of a HindsightReplayBuffer object: those of BufferFields, its
\* methods and those of the base class.
BufferAttrs ==
    {"reward_fn", "replay_strategy", "is_null_goal", "swap_keys_list",
     "future_prob", "memory", "episodic_memory", "current_episode",
     "capacity", "append", "stop_current_episode", "sample",
     "sample_episodes", "sample_with_replacement"}

\* Lines 163-170: the dispatch on the strategy tag.
SampleDispatch(self) ==
    IF self.replay_strategy = "future"
    THEN IF "_replay_future" \in BufferAttrs THEN "none" ELSE "AttributeError"
    ELSE IF self.replay_strategy = "final"
    THEN IF "_replay_final" \in BufferAttrs THEN "none" ELSE "AttributeError"
    ELSE "NotImplementedError"

\* A mutant of sample: the dispatch alone, without the call of lines 160-162.
sample_DispatchOnly(self, store, n, idxs, empty_ok) ==
    IF ~(len_memory(store) >= n)
    THEN [err |-> "AssertionError", batch |-> <<>>, passed |-> "assert"]
    ELSE LET eps == sample_episodes(store, n, idxs, empty_ok)
         IN  IF eps.err # "none"
             THEN [err |-> eps.err, batch |-> <<>>, passed |-> "sample_episodes"]
             ELSE [err |-> SampleDispatch(self), batch |-> <<>>,
                   passed |-> "dispatch"]

\* Lines 155-170.  self.replay_strategy is the tag (a str) line 145 stored, so
\* line 160 looks up the attribute apply on a str.  passed names the
\* statement the call reached.
sample(self, store, n, idxs, empty_ok) ==
    IF ~(len_memory(store) >= n)
    THEN [err |-> "AssertionError", batch |-> <<>>, passed |-> "assert"]
    ELSE LET eps == sample_episodes(store, n, idxs, empty_ok)
         IN  IF eps.err # "none"
             THEN [err |-> eps.err, batch |-> <<>>, passed |-> "sample_episodes"]
             ELSE IF "apply" \notin StrAttrs
             THEN [err |-> "AttributeError", batch |-> <<>>, passed |-> "apply"]
             ELSE [err |-> SampleDispatch(self), batch |-> <<>>,
                   passed |-> "dispatch"]

\* sample on the buffer object lines 144-152 assemble for a strategy tag
\* that passes line 140.
Sample ==
    \E replay_strategy \in StrategyTags, future_k \in 0..MaxK, n \in -1..MaxN,
       empty_ok \in BOOLEAN :
        \E idxs \in IdxDraws(episodic_memory, n) :
            LET self == BufferFields(replay_strategy, "fn", future_k,
                                     DefaultSwapList)
                r == sample(self, episodic_memory, n, idxs, empty_ok)
            IN  /\ res' = [op |-> "sample",
                           self |-> self,
                           future_k |-> future_k,
                           n |-> n,
                           size |-> Len(episodic_memory),
                           err |-> r.err,
                           batch |-> r.batch,
                           passed |-> r.passed]
                /\ UNCHANGED episodic_memory

---------------------------------------------------------------------------
(* The strategies: lines 22-113.                                           *)

\* Lines 26-27.
HindsightReplayStrategy_init == [class |-> "HindsightReplayStrategy",
                                 reward_fn |-> "fn"]

\* Lines 36-38.
ReplayFinalGoal_init(ignore_null_goals, null_goal_fn) ==
    [class |-> "ReplayFinalGoal",
     ignore_null_goals |-> ignore_null_goals,
     is_null_goal |-> null_goal_fn]

\* Lines 77-79.  The constructor sets no future_prob.
ReplayFutureGoal_init(ignore_null_goals, null_goal_fn) ==
    [class |-> "ReplayFutureGoal",
     ignore_null_goals |-> ignore_null_goals,
     is_null_goal |-> null_goal_fn]

\* Lines 29-30.
HindsightReplayStrategy_apply(self, episodes) == episodes

\* np.random.randint(high): the integers of [0, high).
RandInt(high) == 0..(high - 1)

\* The vectors ts of lines 45 and 88, one draw per episode.
TsDraws(episodes) ==
    {ts \in [1..Len(episodes) -> 0..MaxEpLen] :
        \A i \in 1..Len(episodes) : ts[i] \in RandInt(Len(episodes[i]))}

\* Numerators of the values np.random.uniform can return, in [0, 1).
Uniform == 0..(UniformRes - 1)

ApplyLocals ==
    {"self", "episodes", "reward_fn", "batch_size", "episode_lens", "ts",
     "apply_hers", "future_offset", "future_ts", "batch", "episode",
     "apply_her", "t", "future_t", "transition", "final_transition",
     "final_goal", "future_transition", "future_goal"}

\* Lines 57-58 and 107-108: self.ignore_null_goals and self.is_null_goal(goal),
\* evaluated left to right; calling the default None raises TypeError.
NullGoalFilter(self, goal) ==
    IF ~self.ignore_null_goals THEN [err |-> "none", filtered |-> FALSE]
    ELSE IF self.is_null_goal = "None" THEN [err |-> "TypeError", filtered |-> FALSE]
    ELSE [err |-> "none", filtered |-> is_null_goal(goal)]

\* The outcome r of a relabel call on the object out, for a step that leaves
\* the object stored in the episode.
Relabeled(r, stored) ==
    [err |-> r.err, out |-> r.transition, stored |-> stored, calls |-> r.calls]

\* The outcome of a step that raises err before the relabel call runs.
Raised(err, copy, stored) ==
    [err |-> err, out |-> copy, stored |-> stored, calls |-> 0]

\* The outcome r of a relabel call on the stored object itself.
RelabeledStored(r) ==
    [err |-> r.err, out |-> r.transition, stored |-> r.transition,
     calls |-> r.calls]

\* A mutant of RelabelCopy: no copy is made and the call goes through, so the
\* primitive writes to the stored transition.
RelabelInPlace(transition, goal_transition) ==
    RelabeledStored(relabel_transition_goal("self", transition, goal_transition,
                                            DefaultSwapList))

\* Lines 59-61 and 109-111: the deep copy, then the call expression.  Its
\* last argument is the name swap_keys_list and it passes four positional
\* arguments.  stored is the transition object of the episode after the step;
\* a copy is a new object of equal value.
RelabelCopy(transition, goal_transition) ==
    IF ~Resolves("swap_keys_list", ApplyLocals)
    THEN Raised("NameError", transition, transition)
    ELSE IF 4 # RelabelArity
    THEN Raised("TypeError", transition, transition)
    ELSE Relabeled(relabel_transition_goal("self", transition, goal_transition,
                                           DefaultSwapList),
                   transition)

\* The outcome of the loop body that appends the transition as it is stored.
Keep(episode, t, err, step) ==
    [err |-> err, out |-> episode[t + 1], episode |-> episode, calls |-> 0,
     step |-> step]

\* The outcome of the loop body after the relabel step r.
RelabelStep(episode, t, r) ==
    [err |-> r.err, out |-> r.out,
     episode |-> [episode EXCEPT ![t + 1] = r.stored],
     calls |-> r.calls, step |-> "relabel"]

\* Lines 57-61 and 107-111 once the filter f is evaluated.
AfterFilter(episode, t, goal_t, f) ==
    IF f.err # "none" THEN Keep(episode, t, f.err, "filter")
    ELSE IF f.filtered THEN Keep(episode, t, "none", "filtered")
    ELSE RelabelStep(episode, t, RelabelCopy(episode[t + 1], episode[goal_t + 1]))

\* Lines 53-62 and 103-112: the loop body for one episode; goal_t is the index
\* of the goal transition (the last one, or future_t).  step names the branch
\* taken.
ApplyOne(self, episode, t, apply_her, goal_t) ==
    IF ~apply_her THEN Keep(episode, t, "none", "keep")
    ELSE AfterFilter(episode, t, goal_t,
                     NullGoalFilter(self,
                         episode[goal_t + 1].next_state["achieved_goal"]))

\* The loop state after the body's outcome one for the episode at store index e.
Accumulate(acc, e, one) ==
    [err |-> one.err,
     batch |-> IF one.err = "none" THEN Append(acc.batch, <<one.out>>) ELSE <<>>,
     store |-> [acc.store EXCEPT ![e] = one.episode],
     calls |-> acc.calls + one.calls,
     steps |-> Append(acc.steps, one.step)]

RECURSIVE ApplyLoop(_, _, _, _, _, _)
\* The for loops of lines 52-62 and 100-112 from episode Len(acc.steps) + 1 on.
\* acc.store is the episode store the sampled episodes are references into;
\* acc holds the batch, the reward_fn calls and the branches so far.  An
\* exception ends the loop.
ApplyLoop(self, idxs, ts, apply_hers, goal_ts, acc) ==
    IF acc.err # "none" \/ Len(acc.steps) >= Len(idxs) THEN acc
    ELSE ApplyLoop(self, idxs, ts, apply_hers, goal_ts,
             Accumulate(acc, idxs[Len(acc.steps) + 1],
                 ApplyOne(self, acc.store[idxs[Len(acc.steps) + 1]],
                          ts[Len(acc.steps) + 1],
                          apply_hers[Len(acc.steps) + 1],
                          goal_ts[Len(acc.steps) + 1])))

EmptyAcc(store) ==
    [err |-> "none", batch |-> <<>>, store |-> store, calls |-> 0,
     steps |-> <<>>]

\* ReplayFinalGoal.apply, lines 40-63.  apply_hers holds the outcomes of
\* uniform < 0.5 of line 49.
ReplayFinalGoal_apply(self, store, idxs, ts, apply_hers) ==
    ApplyLoop(self, idxs, ts, apply_hers,
              [i \in 1..Len(idxs) |-> Len(store[idxs[i]]) - 1], EmptyAcc(store))

\* Lines 95-98: floor(uniform * (episode_len - t)) added to t, for a uniform
\* value u / UniformRes.
future_ts(episode_len, t, u) == t + ((u * (episode_len - t)) \div UniformRes)

WithFutureTs(r, fts) ==
    [err |-> r.err, batch |-> r.batch, store |-> r.store, calls |-> r.calls,
     steps |-> r.steps, future_ts |-> fts]

\* ReplayFutureGoal.apply, lines 81-113.  Line 92 reads self.future_prob.
\* u_hers and u_offs are the uniform draws of lines 92 and 95.
ReplayFutureGoal_apply(self, store, idxs, ts, u_hers, u_offs) ==
    IF "future_prob" \notin DOMAIN self
    THEN WithFutureTs([EmptyAcc(store) EXCEPT !.err = "AttributeError"], <<>>)
    ELSE LET apply_hers ==
                 [i \in 1..Len(idxs) |->
                     u_hers[i] * self.future_prob.den
                         < self.future_prob.num * UniformRes]
             fts == [i \in 1..Len(idxs) |->
                        future_ts(Len(store[idxs[i]]), ts[i], u_offs[i])]
         IN  WithFutureTs(ApplyLoop(self, idxs, ts, apply_hers, fts,
                                    EmptyAcc(store)),
                          fts)

Episodes(store, idxs) == [i \in 1..Len(idxs) |-> store[idxs[i]]]

BatchDraws(store) ==
    UNION {IF k > 0 /\ store = <<>> THEN {} ELSE IdxDraws(store, k) : k \in 0..MaxN}

\* The record of an apply call: its receiver, arguments, draws and outcome r.
ApplyCall(op, self, episodes, ts, apply_hers, r) ==
    [op |-> op, self |-> self, episodes |-> episodes, ts |-> ts,
     apply_hers |-> apply_hers, err |-> r.err, batch |-> r.batch,
     calls |-> r.calls, steps |-> r.steps,
     future_ts |-> IF op = "future_apply" THEN r.future_ts ELSE <<>>]

\* strategy.apply(episodes): the base strategy on episodes drawn from the store.
BaseApply ==
    /\ res = NoCall
    /\ \E idxs \in BatchDraws(episodic_memory) :
        /\ res' = [op |-> "base_apply",
                   self |-> HindsightReplayStrategy_init,
                   episodes |-> Episodes(episodic_memory, idxs),
                   err |-> "none",
                   batch |-> HindsightReplayStrategy_apply(
                                 HindsightReplayStrategy_init,
                                 Episodes(episodic_memory, idxs))]
        /\ UNCHANGED episodic_memory

\* The call's record and the store it leaves.
Returns(op, self, episodes, ts, apply_hers, r) ==
    /\ res' = ApplyCall(op, self, episodes, ts, apply_hers, r)
    /\ episodic_memory' = r.store

\* ReplayFinalGoal(...).apply(episodes, reward_fn) on episodes of the store.
FinalApply ==
    /\ res = NoCall
    /\ \E ignore_null_goals \in BOOLEAN, null_goal_fn \in {"fn", "None"},
          idxs \in BatchDraws(episodic_memory) :
        \E ts \in TsDraws(Episodes(episodic_memory, idxs)),
           apply_hers \in [1..Len(idxs) -> BOOLEAN] :
            Returns("final_apply",
                    ReplayFinalGoal_init(ignore_null_goals, null_goal_fn),
                    Episodes(episodic_memory, idxs), ts, apply_hers,
                    ReplayFinalGoal_apply(
                        ReplayFinalGoal_init(ignore_null_goals, null_goal_fn),
                        episodic_memory, idxs, ts, apply_hers))

\* The uniform draws a call of ReplayFutureGoal.apply makes: none when line 92
\* raises before them.
UDraws(self, k) ==
    IF "future_prob" \in DOMAIN self THEN [1..k -> Uniform] ELSE {<<>>}

\* ReplayFutureGoal(...).apply(episodes, reward_fn) on episodes of the store.
FutureApply ==
    /\ res = NoCall
    /\ \E ignore_null_goals \in BOOLEAN, null_goal_fn \in {"fn", "None"},
          idxs \in BatchDraws(episodic_memory) :
        \E ts \in TsDraws(Episodes(episodic_memory, idxs)),
           u_hers \in UDraws(ReplayFutureGoal_init(ignore_null_goals,
                                                   null_goal_fn), Len(idxs)),
           u_offs \in UDraws(ReplayFutureGoal_init(ignore_null_goals,
                                                   null_goal_fn), Len(idxs)) :
            Returns("future_apply",
                    ReplayFutureGoal_init(ignore_null_goals, null_goal_fn),
                    Episodes(episodic_memory, idxs), ts, <<>>,
                    ReplayFutureGoal_apply(
                        ReplayFutureGoal_init(ignore_null_goals, null_goal_fn),
                        episodic_memory, idxs, ts, u_hers, u_offs))

\* Any store append can build; each behaviour then makes one apply call.
InitApply ==
    /\ episodic_memory \in SeqsUpTo(EpisodePool, 0, MaxEpisodes)
    /\ res = NoCall

NextApply == BaseApply \/ FinalApply \/ FutureApply

SpecApply == InitApply /\ [][NextApply]_vars

Init == episodic_memory = <<>> /\ res = NoCall

Next == append \/ Sample

Spec == Init /\ [][Next]_vars

---------------------------------------------------------------------------
(* Properties.                                                             *)

ApplyOps == {"final_apply", "future_apply"}

Indices(seq) == 1..Len(seq)

\* The base transition episode[t] of the i-th episode of the last apply call.
BaseTransition(i) == res.episodes[i][res.ts[i] + 1]

FinalGoalOf(i) ==
    res.episodes[i][Len(res.episodes[i])].next_state["achieved_goal"]

C2_SampleNeedsOnlyNonEmptyStore ==
    res.op = "sample" =>
        /\ (res.n > 0 /\ res.size > 0) => res.err = "none"
        /\ (res.n <= 0 \/ res.size = 0) =>
               res.err \in {"AssertionError", "ValueError"}

\* C3: sample(n) with n > 0 on a non-empty store returns n elements, each a
\* single-element sequence.
C3_SampleReturnsNSingletons ==
    (res.op = "sample" /\ res.n > 0 /\ res.size > 0) =>
        /\ res.err = "none"
        /\ Len(res.batch) = res.n
        /\ \A i \in Indices(res.batch) : Len(res.batch[i]) = 1

\* C4: construction fails when the strategy tag is unknown or the swap list
\* lacks (desired_goal, achieved_goal), and succeeds, keeping the given
\* configuration, when the tag is known, is_null_goal is given and the swap
\* list holds the pair.
C4_ConstructionFailsExactly ==
    res.op = "init" =>
        LET pair == InList(<<"desired_goal", "achieved_goal">>, res.swap_list)
            known == res.replay_strategy \in StrategyTags
        IN  /\ (~known \/ ~pair) => res.result.err # "none"
            /\ (known /\ pair /\ res.is_null_goal = "fn") =>
                   /\ res.result.err = "none"
                   /\ res.result.self =
                          BufferFields(res.replay_strategy, res.is_null_goal,
                                       res.future_k, res.swap_list)

DesiredKeysOf(list) == {list[i][1] : i \in Indices(list)}

DistinctDesiredKeys(list) ==
    \A i, j \in Indices(list) : list[i][1] = list[j][1] => i = j

\* What C5 says of the last relabel call: every rule's desired key holds the
\* goal transition's value for the rule's achieved key in state and in
\* next_state, and no other key of either mapping changed.
KeySwapHolds ==
    /\ res.err = "none"
    /\ \A i \in Indices(res.swap_keys_list) :
        LET d == res.swap_keys_list[i][1]
            a == res.swap_keys_list[i][2]
        IN  /\ res.out.state[d] = res.goal_transition.next_state[a]
            /\ res.out.next_state[d] = res.goal_transition.next_state[a]
    /\ \A k \in Keys \ DesiredKeysOf(res.swap_keys_list) :
        /\ res.out.state[k] = res.transition.state[k]
        /\ res.out.next_state[k] = res.transition.next_state[k]
    /\ DOMAIN res.out.state = Keys /\ DOMAIN res.out.next_state = Keys

\* C5 as stated: key-swap correctness for every swap list that contains
\* (desired_goal, achieved_goal) and every rule of it.
C5_KeySwapEveryList == res.op = "relabel" => KeySwapHolds

\* C5 amended: key-swap correctness for every swap list that contains
\* (desired_goal, achieved_goal) and names no desired key twice.
C5_KeySwapDistinctKeys ==
    (res.op = "relabel" /\ DistinctDesiredKeys(res.swap_keys_list)) =>
        KeySwapHolds

\* A relabel call with two rules on two desired keys that changed both.
C5_Witness ==
    /\ res.op = "relabel"
    /\ Len(res.swap_keys_list) = 2
    /\ DistinctDesiredKeys(res.swap_keys_list)
    /\ \A d \in DesiredKeys : res.out.next_state[d] # res.transition.next_state[d]

\* Whether the final-goal strategy is to relabel episode i of the last call:
\* apply_her drawn true and the final goal not filtered out.
FinalRelabels(i) ==
    /\ res.apply_hers[i]
    /\ ~(res.self.ignore_null_goals /\ is_null_goal(FinalGoalOf(i)))

\* C6: every transition the final-goal strategy relabels is returned with
\* reward reward_fn(final goal, its own achieved goal), and reward_fn is called
\* once per relabeled transition and for no other.
C6_RewardRecomputed ==
    (res.op = "final_apply" /\ res.self.is_null_goal = "fn") =>
        /\ res.err = "none"
        /\ \A i \in Indices(res.episodes) :
            FinalRelabels(i) =>
                res.batch[i][1].reward =
                    reward_fn(FinalGoalOf(i),
                              BaseTransition(i).next_state["achieved_goal"])
        /\ res.calls = Cardinality({i \in Indices(res.episodes) : FinalRelabels(i)})

\* C7: apply picks for every episode an index t within the episode, and the
\* future strategy a future index future_t with t <= future_t <= L - 1.
C7_IndexBounds ==
    res.op \in ApplyOps =>
        /\ \A i \in Indices(res.episodes) :
            res.ts[i] \in 0..(Len(res.episodes[i]) - 1)
        /\ res.op = "future_apply" =>
            /\ Len(res.future_ts) = Len(res.episodes)
            /\ \A i \in Indices(res.future_ts) :
                /\ res.ts[i] <= res.future_ts[i]
                /\ res.future_ts[i] <= Len(res.episodes[i]) - 1

\* Whether no goal apply could pick for episode i passes the null-goal filter.
AllGoalsFiltered(i) ==
    /\ res.self.ignore_null_goals
    /\ res.self.is_null_goal = "fn"
    /\ \A j \in (res.ts[i] + 1)..Len(res.episodes[i]) :
        is_null_goal(res.episodes[i][j].next_state["achieved_goal"])

\* Whether episode i of the last apply call is one C8 says is not relabeled.
NotToRelabel(i) ==
    \/ AllGoalsFiltered(i)
    \/ res.op = "final_apply" /\ ~res.apply_hers[i]
    \/ /\ res.op = "final_apply"
       /\ res.self.ignore_null_goals
       /\ res.self.is_null_goal = "fn"
       /\ is_null_goal(FinalGoalOf(i))

\* C8: when apply_her is false or the candidate goal is filtered out for every
\* episode of the batch, apply returns for each episode its transition
\* episode[t] unchanged.
C8_NotRelabeledUnchanged ==
    (/\ res.op \in ApplyOps
     /\ res.episodes # <<>>
     /\ \A i \in Indices(res.episodes) : NotToRelabel(i)) =>
        /\ res.err = "none"
        /\ Len(res.batch) = Len(res.episodes)
        /\ \A i \in Indices(res.batch) : res.batch[i] = <<BaseTransition(i)>>

\* C9: future_prob lies in [0, 1) and is 0 for future_k = 0, and sampling
\* under the future strategy with future_k = 0 returns stored transitions as
\* they are.
C9_FutureKZeroNeverRelabels ==
    (res.op = "sample" /\ res.self.replay_strategy = "future") =>
        /\ 0 <= res.self.future_prob.num
        /\ res.self.future_prob.num < res.self.future_prob.den
        /\ (res.future_k = 0) = (res.self.future_prob.num = 0)
        /\ (res.future_k = 0 /\ res.n > 0 /\ res.size > 0) =>
            /\ res.err = "none"
            /\ Len(res.batch) = res.n
            /\ \A i \in Indices(res.batch) :
                \E e \in Indices(episodic_memory) :
                    \E t \in Indices(episodic_memory[e]) :
                        res.batch[i] = <<episodic_memory[e][t]>>

====
